---- MODULE Spec2Model ----
(***************************************************************************)
(* Model of the application-intake bot of src/bot.py: the handlers, the    *)
(* order in which the Application and the ConversationHandler offer an     *)
(* update to them, the SQLite store and the messages sent to the applicant *)
(* and to the organizer.                                                   *)
(*                                                                         *)
(* A text is a sequence of characters; a message that carries no text (a   *)
(* sticker, a photo: update.message.text is None) is the empty sequence.   *)
(* Every awaited call of a handler (a reply to the applicant, a message to *)
(* the organizer, the store) may fail; which calls fail is drawn with \E.  *)
(***************************************************************************)
EXTENDS Integers, Sequences, FiniteSets, TLC

\* Number of rows the model lets the applications table grow to.
MaxRows == 2

\* Number of updates the model follows a process through when it also follows
\* its start and its end (Lifecycle); the counter served stops there.
MaxServed == 2

\* ---------------------------------------------------------------- texts

Rep(c, n) == [i \in 1..n |-> c]

Whitespace == {" ", "nl", "tab"}

RECURSIVE LStrip(_)
LStrip(s) == IF s # <<>> /\ Head(s) \in Whitespace THEN LStrip(Tail(s)) ELSE s

RECURSIVE RStrip(_)
RStrip(s) ==
    IF s # <<>> /\ s[Len(s)] \in Whitespace
    THEN RStrip(SubSeq(s, 1, Len(s) - 1))
    ELSE s

\* str.strip()
Strip(s) == RStrip(LStrip(s))

\* The validation threshold of handle_application_message.
MinLength == 20

\* The label of the keyboard button, "Подать заявку" (13 characters),
\* transliterated character by character.
BUTTON == <<"P", "o", "d", "a", "t", "'", " ", "z", "a", "ya", "v", "k", "u">>

Command(name) == <<"/">> \o name

START == <<"s", "t", "a", "r", "t">>
CANCEL == <<"c", "a", "n", "c", "e", "l">>
HELP == <<"h", "e", "l", "p">>

\* The messages applicants send.
Texts ==
    { <<>>,                                                 \* no text at all
      BUTTON,
      Command(START), Command(CANCEL), Command(HELP),
      Command(HELP) \o <<" ">> \o Rep("a", MinLength),      \* a command with arguments
      <<"a">>,
      Rep(" ", MinLength + 1),                              \* whitespace only
      Rep("a", MinLength - 1),
      <<" ">> \o Rep("a", MinLength - 1) \o <<" ", "nl">>,  \* 22 raw, 19 stripped
      Rep("a", MinLength),
      <<"nl">> \o Rep("b", MinLength) \o <<" ">> }

\* ---------------------------------------------------------------- users

Users == {1, 2}

\* int(os.environ["ORGANIZER_CHAT_ID"]): the organizer is user 1.
ORGANIZER_CHAT_ID == 1

\* user.username: user 2 has none.
None == "None"
Username(u) == IF u = 1 THEN "organizer" ELSE None

\* str() of a non-negative int, as its decimal digits.
RECURSIVE Str(_)
Str(n) == IF n < 10 THEN <<n>> ELSE Str(n \div 10) \o <<n % 10>>

\* ---------------------------------------------------------------- states

\* ConversationHandler.END; a key that is not in the conversation dict.
END == -1
HANDLE_APPLICATION_SUBMISSION == 1

\* ---------------------------------------------------------------- configuration

\* An environment variable: os.environ.get(name) is None when it is not set.
Unset == [set |-> FALSE, value |-> <<>>]
Env(v) == [set |-> TRUE, value |-> v]

\* `not value`: None and the empty string are falsy.
Falsy(e) == ~e.set \/ e.value = <<>>

Digits == {"0", "1", "2", "3", "4", "5", "6", "7", "8", "9"}

DigitValue(c) ==
    CASE c = "0" -> 0 [] c = "1" -> 1 [] c = "2" -> 2 [] c = "3" -> 3 [] c = "4" -> 4
      [] c = "5" -> 5 [] c = "6" -> 6 [] c = "7" -> 7 [] c = "8" -> 8 [] c = "9" -> 9

\* The text int() reads after it stripped the whitespace and took the sign.
Unsigned(s) ==
    LET b == Strip(s)
    IN  IF b # <<>> /\ Head(b) \in {"+", "-"} THEN Tail(b) ELSE b

\* int(s) does not raise ValueError: digits, and single underscores between
\* two digits.
IsInt(s) ==
    LET d == Unsigned(s)
    IN  /\ d # <<>>
        /\ \A i \in 1..Len(d) :
              \/ d[i] \in Digits
              \/ /\ d[i] = "_"
                 /\ 1 < i /\ i < Len(d)
                 /\ d[i - 1] \in Digits /\ d[i + 1] \in Digits

RECURSIVE Magnitude(_, _)
Magnitude(d, acc) ==
    IF d = <<>> THEN acc
    ELSE IF Head(d) = "_" THEN Magnitude(Tail(d), acc)
    ELSE Magnitude(Tail(d), 10 * acc + DigitValue(Head(d)))

\* int(s), where int(s) does not raise.
int(s) ==
    LET b == Strip(s)
    IN  IF Head(b) = "-" THEN 0 - Magnitude(Unsigned(s), 0) ELSE Magnitude(Unsigned(s), 0)

\* The module-level configuration runs to its end without calling exit().
ConfigWithoutInt(env) ==
    /\ ~Falsy(env["TELEGRAM_BOT_TOKEN"])
    /\ ~Falsy(env["ORGANIZER_CHAT_ID"])

Configured(env) ==
    /\ ~Falsy(env["TELEGRAM_BOT_TOKEN"])
    /\ ~Falsy(env["ORGANIZER_CHAT_ID"])
    /\ IsInt(env["ORGANIZER_CHAT_ID"].value)

Tokens == {Unset, Env(<<>>), Env(<<"t", "o", "k", "e", "n">>)}

\* The organizer ids of the model: not set, empty, not numeric, and the
\* spellings of ORGANIZER_CHAT_ID that int() accepts.
OrganizerIds ==
    {Unset, Env(<<>>), Env(<<" ">>), Env(<<"-">>), Env(<<"a", "b", "c">>),
     Env(<<"1", ".", "5">>), Env(<<"1", "_">>), Env(<<"1">>),
     Env(<<" ", "+", "0", "1", "nl">>)}

Environs ==
    {[n \in {"TELEGRAM_BOT_TOKEN", "ORGANIZER_CHAT_ID"} |->
          IF n = "TELEGRAM_BOT_TOKEN" THEN tok ELSE org] :
       tok \in Tokens, org \in OrganizerIds}

VARIABLES
    environ,        \* os.environ when the process was started
    process,        \* "starting", "serving" (run_polling) or "exited"
    timer,          \* the restart's deferred action
    served,         \* updates processed so far, counted up to MaxServed
    conversations,  \* the ConversationHandler's state of each user
    db,             \* the rows of table applications, in id order
    update,         \* the update processed last: [user, text]
    before,         \* conversations and db when that update arrived
    handler,        \* the handler that update was given to
    trace,          \* the calls made while processing it, in order
    raised          \* whether the handler raised (error_handler ran)

vars ==
    <<environ, process, timer, served,
      conversations, db, update, before, handler, trace, raised>>

\* ---------------------------------------------------------------- filters

\* filters.TEXT: bool(message.text)
TEXT(t) == Len(t) > 0

\* filters.COMMAND: a bot_command entity at offset 0, "/" then a name.
COMMAND(t) == Len(t) >= 2 /\ t[1] = "/" /\ t[2] \notin Whitespace \cup {"/"}

RECURSIVE Word(_)
Word(s) == IF s = <<>> \/ Head(s) \in Whitespace THEN <<>> ELSE <<Head(s)>> \o Word(Tail(s))

\* CommandHandler(name).check_update
IsCommand(t, name) == COMMAND(t) /\ Word(Tail(t)) = name

\* filters.Regex("^Подать заявку$"): re.search, where $ also matches before a
\* trailing newline.
Regex(t) == t = BUTTON \/ t = BUTTON \o <<"nl">>

\* ---------------------------------------------------------------- calls

\* One awaited call of a handler and whether it succeeded.
\*   reply: update.message.reply_text / reply_html, to the applicant
\*   send:  context.bot.send_message(chat_id=ORGANIZER_CHAT_ID, ...)
\*   db:    sqlite3.connect / cursor.execute + conn.commit
Step(op, msg, ok) == [op |-> op, msg |-> msg, ok |-> ok]

\* Which of the calls of one update succeed.
Outcomes ==
    [connect : BOOLEAN, insert : BOOLEAN, reply : BOOLEAN, forward : BOOLEAN,
     warning : BOOLEAN, alert : BOOLEAN, apology : BOOLEAN]

\* The outcomes of a handler whose only call is one reply.
ReplyOutcomes ==
    [connect : {TRUE}, insert : {TRUE}, reply : BOOLEAN, forward : {TRUE},
     warning : {TRUE}, alert : {TRUE}, apology : BOOLEAN]

\* The outcomes of an accepted application. A call that is not reached has
\* no outcome of its own: it is fixed to TRUE.
SubmissionOutcomes ==
    { o \in Outcomes :
        /\ ~o.connect => o.insert /\ o.reply
        /\ ~o.reply => o.forward
        /\ o.forward => o.warning
        /\ ~o.warning => o.alert
        /\ (o.connect /\ o.reply /\ o.warning) => o.apology }

\* The outcomes of an update no call is made for.
NoCall ==
    [connect |-> TRUE, insert |-> TRUE, reply |-> TRUE, forward |-> TRUE,
     warning |-> TRUE, alert |-> TRUE, apology |-> TRUE]

\* What a handler did: the calls it made, whether it raised, the state it
\* returned (a set: empty for None; meaningful when it did not raise) and the
\* rows of the table.
Result(steps, isRaised, ret, rows) ==
    [steps |-> steps, raised |-> isRaised, ret |-> ret, rows |-> rows]

\* ---------------------------------------------------------------- store

Row(user_id, username, application_text) ==
    [user_id |-> user_id, username |-> username, application_text |-> application_text]

\* save_application_to_db without conn.commit(): the INSERT succeeds and the
\* row is lost when the connection is closed.
save_without_commit(rows, user_id, username, application_text, o) ==
    IF ~o.connect
    THEN Result(<<Step("db", "connect", FALSE)>>, TRUE, {}, rows)
    ELSE Result(<<Step("db", "connect", TRUE), Step("db", "insert", o.insert)>>,
                FALSE, {}, rows)

\* save_application_to_db with INSERT OR REPLACE on a table whose user_id is
\* unique: the new row replaces the rows the user already has.
save_replaces_row(rows, user_id, username, application_text, o) ==
    IF ~o.connect
    THEN Result(<<Step("db", "connect", FALSE)>>, TRUE, {}, rows)
    ELSE IF ~o.insert
    THEN Result(<<Step("db", "connect", TRUE), Step("db", "insert", FALSE)>>,
                FALSE, {}, rows)
    ELSE Result(<<Step("db", "connect", TRUE), Step("db", "insert", TRUE)>>,
                FALSE, {},
                Append(SelectSeq(rows, LAMBDA r : r.user_id # user_id),
                       Row(user_id, username, application_text)))

\* sqlite3.connect is outside the try: its failure propagates. A failure of
\* the INSERT is caught and logged.
save_application_to_db(rows, user_id, username, application_text, o) ==
    IF ~o.connect
    THEN Result(<<Step("db", "connect", FALSE)>>, TRUE, {}, rows)
    ELSE IF ~o.insert
    THEN Result(<<Step("db", "connect", TRUE), Step("db", "insert", FALSE)>>,
                FALSE, {}, rows)
    ELSE Result(<<Step("db", "connect", TRUE), Step("db", "insert", TRUE)>>,
                FALSE, {}, Append(rows, Row(user_id, username, application_text)))

\* ---------------------------------------------------------------- handlers

\* One reply, then return ret; the reply's failure propagates.
ReplyThenReturn(msg, ret, rows, o) ==
    Result(<<Step("reply", msg, o.reply)>>, ~o.reply, ret, rows)

start_command(rows, o) == ReplyThenReturn("welcome", {END}, rows, o)

\* request_application_action ending the conversation it should open.
request_returns_end(rows, o) == ReplyThenReturn("template", {END}, rows, o)

request_application_action(rows, o) ==
    ReplyThenReturn("template", {HANDLE_APPLICATION_SUBMISSION}, rows, o)

\* cancel_conversation returning the state it was called in.
cancel_keeps_state(rows, o) ==
    ReplyThenReturn("cancelled", {HANDLE_APPLICATION_SUBMISSION}, rows, o)

cancel_conversation(rows, o) == ReplyThenReturn("cancelled", {END}, rows, o)

\* Returns None: it is registered outside the conversation.
unknown_command_handler(rows, o) == ReplyThenReturn("not_understood", {}, rows, o)

\* The validation without .strip(): surrounding whitespace counts.
TooShort_unstripped(application_text) ==
    application_text = <<>> \/ Len(application_text) < MinLength

\* The validation with a threshold of 10 characters.
TooShort_ten(application_text) ==
    application_text = <<>> \/ Len(Strip(application_text)) < MinLength - 10

\* not application_text or len(application_text.strip()) < 20
TooShort(application_text) ==
    application_text = <<>> \/ Len(Strip(application_text)) < MinLength

\* The except branch without the test that the applicant is not the
\* organizer.
ForwardFailed_always_alerts(user, o) ==
    IF ~o.warning
    THEN [steps |-> <<Step("reply", "warning", FALSE)>>, raised |-> TRUE]
    ELSE [steps |-> <<Step("reply", "warning", TRUE), Step("send", "alert", o.alert)>>,
          raised |-> FALSE]

\* The except branch sending the application to the organizer a second time
\* before it warns the applicant.
ForwardFailed_retries(user, o) ==
    IF ~o.warning
    THEN [steps |-> <<Step("send", "forward", o.alert), Step("reply", "warning", FALSE)>>,
          raised |-> TRUE]
    ELSE [steps |-> <<Step("send", "forward", o.alert), Step("reply", "warning", TRUE)>>,
          raised |-> FALSE]

\* The except branch of the forward: the warning to the applicant, whose
\* failure propagates, then the alert to the organizer unless the applicant
\* is the organizer; the alert's failure is logged.
ForwardFailed(user, o) ==
    IF ~o.warning
    THEN [steps |-> <<Step("reply", "warning", FALSE)>>, raised |-> TRUE]
    ELSE IF Str(user) # Str(ORGANIZER_CHAT_ID)
    THEN [steps |-> <<Step("reply", "warning", TRUE), Step("send", "alert", o.alert)>>,
          raised |-> FALSE]
    ELSE [steps |-> <<Step("reply", "warning", TRUE)>>, raised |-> FALSE]

\* handle_application_message thanking the applicant before it saves.
handle_acknowledges_first(rows, user, application_text, o) ==
    IF TooShort(application_text)
    THEN ReplyThenReturn("rejection", {HANDLE_APPLICATION_SUBMISSION}, rows, o)
    ELSE IF ~o.reply
    THEN Result(<<Step("reply", "ack", FALSE)>>, TRUE, {}, rows)
    ELSE
      LET username == IF Username(user) # None THEN Username(user) ELSE "N/A"
          saved == save_application_to_db(rows, user, username, application_text, o)
          acked == <<Step("reply", "ack", TRUE)>> \o saved.steps
      IN  IF saved.raised THEN Result(acked, TRUE, {}, saved.rows)
          ELSE IF o.forward
          THEN Result(acked \o <<Step("send", "forward", TRUE)>>, FALSE, {END}, saved.rows)
          ELSE
            LET failed == ForwardFailed(user, o)
            IN  Result(acked \o <<Step("send", "forward", FALSE)>> \o failed.steps,
                       failed.raised, {END}, saved.rows)

handle_application_message(rows, user, application_text, o) ==
    IF TooShort(application_text)
    THEN ReplyThenReturn("rejection", {HANDLE_APPLICATION_SUBMISSION}, rows, o)
    ELSE
      LET username == IF Username(user) # None THEN Username(user) ELSE "N/A"
          saved == save_application_to_db(rows, user, username, application_text, o)
      IN  IF saved.raised THEN saved
          ELSE IF ~o.reply
          THEN Result(saved.steps \o <<Step("reply", "ack", FALSE)>>, TRUE, {}, saved.rows)
          ELSE
            LET acked == saved.steps \o <<Step("reply", "ack", TRUE)>>
            IN  IF o.forward
                THEN Result(acked \o <<Step("send", "forward", TRUE)>>, FALSE, {END}, saved.rows)
                ELSE
                  LET failed == ForwardFailed(user, o)
                  IN  Result(acked \o <<Step("send", "forward", FALSE)>> \o failed.steps,
                             failed.raised, {END}, saved.rows)

\* error_handler that only logs.
error_handler_logs_only(o) == <<>>

\* error_handler: the apology to the applicant when the update has a
\* message; its failure is logged.
error_handler(o) == <<Step("reply", "apology", o.apology)>>

\* ---------------------------------------------------------------- dispatch

\* The handler of the state offered every text, also without a conversation
\* (as when it is added to the application itself).
ConversationHandler_without_entry(state, t) ==
    IF TEXT(t) /\ Regex(t) /\ state = END THEN "request_application_action"
    ELSE IF TEXT(t) /\ ~COMMAND(t) THEN "handle_application_message"
    ELSE IF state = END THEN "none"
    ELSE IF IsCommand(t, CANCEL) THEN "cancel_conversation"
    ELSE "none"

\* The handler of the state registered with filters.TEXT alone, without
\* ~filters.COMMAND.
ConversationHandler_takes_commands(state, t) ==
    IF state = END
    THEN IF TEXT(t) /\ Regex(t) THEN "request_application_action" ELSE "none"
    ELSE IF TEXT(t) THEN "handle_application_message"
    ELSE "none"

\* ConversationHandler.check_update: without a conversation only the entry
\* points are tried (allow_reentry is off); in a state, the handlers of the
\* state first and the fallbacks when none of them matches.
ConversationHandler(state, t) ==
    IF state = END
    THEN IF TEXT(t) /\ Regex(t) THEN "request_application_action" ELSE "none"
    ELSE IF TEXT(t) /\ ~COMMAND(t) THEN "handle_application_message"
    ELSE IF IsCommand(t, START) THEN "start_command"
    ELSE IF IsCommand(t, CANCEL) THEN "cancel_conversation"
    ELSE IF Regex(t) THEN "request_application_action"
    ELSE "none"

\* Application.process_update over the handlers of main(), all in one group:
\* the first handler that accepts the update gets it and the others are
\* skipped. conv tells whether the ConversationHandler ran the callback, so
\* that the state it returns is stored.
Dispatch(state, t) ==
    IF IsCommand(t, START)
    THEN [callback |-> "start_command", conv |-> FALSE]
    ELSE IF ConversationHandler(state, t) # "none"
    THEN [callback |-> ConversationHandler(state, t), conv |-> TRUE]
    ELSE IF COMMAND(t)
    THEN [callback |-> "unknown_command_handler", conv |-> FALSE]
    ELSE [callback |-> "none", conv |-> FALSE]

\* The state stored under one key for every user (a conversation keyed
\* neither per chat nor per user).
UpdateState_shared_key(u, d, res) ==
    IF d.conv /\ ~res.raised /\ res.ret # {}
    THEN [v \in Users |-> CHOOSE s \in res.ret : TRUE]
    ELSE conversations

\* ConversationHandler._update_state: END drops the key, None keeps the
\* state, any other value is stored. A callback that raised, or one that ran
\* outside the ConversationHandler, stores nothing.
UpdateState(u, d, res) ==
    IF d.conv /\ ~res.raised /\ res.ret # {}
    THEN [conversations EXCEPT ![u] = CHOOSE s \in res.ret : TRUE]
    ELSE conversations

\* One update, from its arrival to the end of its processing.
Process(u, t, d, res, o) ==
    /\ process = "serving"
    /\ Len(res.rows) <= MaxRows
    /\ served' = IF served < MaxServed THEN served + 1 ELSE served
    /\ UNCHANGED <<environ, process, timer>>
    /\ update' = [user |-> u, text |-> t]
    /\ before' = [conversations |-> conversations, db |-> db]
    /\ handler' = d
    /\ conversations' = UpdateState(u, d, res)
    /\ db' = res.rows
    /\ trace' = IF res.raised THEN res.steps \o error_handler(o) ELSE res.steps
    /\ raised' = res.raised

\* The process at run_polling(), started in an environment that names the
\* organizer.
Init ==
    /\ environ \in {e \in Environs : e["ORGANIZER_CHAT_ID"] = Env(<<"1">>) /\ Configured(e)}
    /\ process = "serving"
    /\ timer = "armed"
    /\ served = 0
    /\ conversations = [u \in Users |-> END]
    /\ db = <<>>
    /\ update = [user |-> ORGANIZER_CHAT_ID, text |-> <<>>]
    /\ before = [conversations |-> [u \in Users |-> END], db |-> <<>>]
    /\ handler = [callback |-> "none", conv |-> FALSE]
    /\ trace = <<>>
    /\ raised = FALSE

\* Dispatch, tabulated over the states and the texts of the model.
Routing ==
    [state \in {END, HANDLE_APPLICATION_SUBMISSION}, t \in Texts |-> Dispatch(state, t)]

Handled(u, t, name) == Routing[conversations[u], t].callback = name

StartCommand ==
    \E u \in Users, t \in Texts :
        /\ Handled(u, t, "start_command")
        /\ \E o \in ReplyOutcomes :
              Process(u, t, Routing[conversations[u], t], start_command(db, o), o)

RequestApplicationAction ==
    \E u \in Users, t \in Texts :
        /\ Handled(u, t, "request_application_action")
        /\ \E o \in ReplyOutcomes :
              Process(u, t, Routing[conversations[u], t],
                      request_application_action(db, o), o)

HandleApplicationMessage ==
    \E u \in Users, t \in Texts :
        /\ Handled(u, t, "handle_application_message")
        /\ \E o \in IF TooShort(t) THEN ReplyOutcomes ELSE SubmissionOutcomes :
              Process(u, t, Routing[conversations[u], t],
                      handle_application_message(db, u, t, o), o)

CancelConversation ==
    \E u \in Users, t \in Texts :
        /\ Handled(u, t, "cancel_conversation")
        /\ \E o \in ReplyOutcomes :
              Process(u, t, Routing[conversations[u], t], cancel_conversation(db, o), o)

UnknownCommandHandler ==
    \E u \in Users, t \in Texts :
        /\ Handled(u, t, "unknown_command_handler")
        /\ \E o \in ReplyOutcomes :
              Process(u, t, Routing[conversations[u], t],
                      unknown_command_handler(db, o), o)

\* No handler accepts the update: nothing is called.
Unhandled ==
    \E u \in Users, t \in Texts :
        /\ Handled(u, t, "none")
        /\ Process(u, t, Routing[conversations[u], t], Result(<<>>, FALSE, {}, db), NoCall)

Next ==
    \/ StartCommand
    \/ RequestApplicationAction
    \/ HandleApplicationMessage
    \/ CancelConversation
    \/ UnknownCommandHandler
    \/ Unhandled

Spec == Init /\ [][Next]_vars

\* ---------------------------------------------------------------- lifecycle

\* The restart's deferred action is armed when the process starts.
ArmedAtStart(started) == IF started THEN "armed" ELSE "unarmed"

\* Lines 23-41 run when the module is loaded, before main(): exit(), or the
\* process goes on to run_polling().
Startup ==
    /\ process = "starting"
    /\ process' = IF Configured(environ) THEN "serving" ELSE "exited"
    /\ timer' = ArmedAtStart(Configured(environ))
    /\ UNCHANGED <<environ, served, conversations, db, update, before, handler, trace, raised>>

\* The deferred action fires: one notice to the organizer, sent or failed.
RestartFire ==
    /\ process = "serving"
    /\ timer = "armed"
    /\ timer' \in {"notice_sent", "notice_failed"}
    /\ UNCHANGED <<environ, process, served, conversations, db, update, before, handler,
                   trace, raised>>

RestartExitAfterNotice ==
    /\ process = "serving"
    /\ timer = "notice_sent"
    /\ process' = "exited"
    /\ UNCHANGED <<environ, timer, served, conversations, db, update, before, handler,
                   trace, raised>>

\* The grace period is over: the process terminates.
RestartExit ==
    /\ process = "serving"
    /\ timer \in {"notice_sent", "notice_failed"}
    /\ process' = "exited"
    /\ UNCHANGED <<environ, timer, served, conversations, db, update, before, handler,
                   trace, raised>>

InitLifecycle ==
    /\ environ \in Environs
    /\ process = "starting"
    /\ timer = "unarmed"
    /\ served = 0
    /\ conversations = [u \in Users |-> END]
    /\ db = <<>>
    /\ update = [user |-> ORGANIZER_CHAT_ID, text |-> <<>>]
    /\ before = [conversations |-> [u \in Users |-> END], db |-> <<>>]
    /\ handler = [callback |-> "none", conv |-> FALSE]
    /\ trace = <<>>
    /\ raised = FALSE

\* The handlers, while fewer than MaxServed updates were processed.
Serve ==
    \/ served < MaxServed /\ StartCommand
    \/ served < MaxServed /\ RequestApplicationAction
    \/ served < MaxServed /\ HandleApplicationMessage
    \/ served < MaxServed /\ CancelConversation
    \/ served < MaxServed /\ UnknownCommandHandler
    \/ served < MaxServed /\ Unhandled

NextLifecycle ==
    \/ Startup
    \/ Serve
    \/ RestartFire
    \/ RestartExit

\* The process, from its start to its end, through its first MaxServed
\* updates. A step the process can take is taken: the module-level code
\* runs, and the grace period ends.
Lifecycle ==
    /\ InitLifecycle
    /\ [][NextLifecycle]_vars
    /\ WF_vars(Startup)
    /\ WF_vars(RestartExit)

TypeOK ==
    /\ environ \in Environs
    /\ process \in {"starting", "serving", "exited"}
    /\ timer \in {"unarmed", "armed", "notice_sent", "notice_failed"}
    /\ served \in 0..MaxServed
    /\ process = "serving" =>
          /\ IsInt(environ["ORGANIZER_CHAT_ID"].value)
          /\ int(environ["ORGANIZER_CHAT_ID"].value) = ORGANIZER_CHAT_ID
    /\ conversations \in [Users -> {END, HANDLE_APPLICATION_SUBMISSION}]
    /\ Len(db) <= MaxRows
    /\ update.user \in Users /\ update.text \in Texts
    /\ raised \in BOOLEAN

\* ================================================================ claims

\* The vocabulary of the specification (its section 6) for the updates.
Kind(t) ==
    IF t = <<>> THEN "NoText"
    ELSE IF IsCommand(t, START) THEN "Greeting"
    ELSE IF IsCommand(t, CANCEL) THEN "Cancel"
    ELSE IF COMMAND(t) THEN "UnrecognizedCommand"
    ELSE IF t = BUTTON THEN "BeginSubmission"
    ELSE "FreeText"

IDLE == END
AWAITING_SUBMISSION == HANDLE_APPLICATION_SUBMISSION

\* The session of the applicant of the last update, before and after it.
Was == before.conversations[update.user]
Now == conversations[update.user]

\* The last update was a FreeText received in AWAITING_SUBMISSION.
Submitted == Kind(update.text) = "FreeText" /\ Was = AWAITING_SUBMISSION
Accepted == Submitted /\ Len(Strip(update.text)) >= MinLength
Rejected == Submitted /\ Len(Strip(update.text)) < MinLength

Calls(op, msg) == { i \in 1..Len(trace) : trace[i].op = op /\ trace[i].msg = msg }
Made(op, msg, ok) == \E i \in Calls(op, msg) : trace[i].ok = ok
Ops(op) == { i \in 1..Len(trace) : trace[i].op = op }

\* The row the last update's applicant and text make.
IsOwnRow(r) == r.user_id = update.user /\ r.application_text = update.text

\* db is before.db with exactly one row added, the applicant's.
OneRowAppended ==
    /\ Len(db) = Len(before.db) + 1
    /\ SubSeq(db, 1, Len(before.db)) = before.db
    /\ IsOwnRow(db[Len(db)])

\* C1 as stated: every FreeText received in AWAITING_SUBMISSION whose text has
\* trimmed length >= 20 appends exactly one record with the applicant's id
\* and the text, and leaves the session IDLE. Stated for the updates whose
\* handler returned, so that neither a failed reply nor a store that does
\* not open is what refutes it.
C1_ExactlyOneRecordAndIdle == (Accepted /\ ~raised) => OneRowAppended /\ Now = IDLE

\* C1 as amended: such an update appends exactly one record with the
\* applicant's id and the text when the store opens and the INSERT succeeds,
\* and none otherwise; the session is IDLE after it unless the handler
\* raised (the store did not open, or the acknowledgment or the warning to
\* the applicant failed), and then it is still AWAITING_SUBMISSION.
C1_OneRecordWhenStoredIdleUnlessRaised ==
    Accepted =>
        /\ IF Made("db", "insert", TRUE) THEN OneRowAppended ELSE db = before.db
        /\ raised <=> \/ Made("db", "connect", FALSE)
                      \/ Made("reply", "ack", FALSE)
                      \/ Made("reply", "warning", FALSE)
        /\ Now = IF raised THEN AWAITING_SUBMISSION ELSE IDLE

\* C1's case: an application of padded text was accepted, stored and the
\* handler returned.
C1_Witness ==
    /\ Accepted /\ ~raised /\ OneRowAppended /\ Now = IDLE
    /\ Len(update.text) > Len(Strip(update.text))

\* C2: a FreeText received in AWAITING_SUBMISSION whose trimmed length is
\* below 20 (empty after trimming included) is answered with the rejection,
\* the session stays AWAITING_SUBMISSION, nothing is written to the store and
\* nothing is sent to the organizer.
C2_RejectionHasNoSideEffects ==
    Rejected =>
        /\ trace # <<>> /\ trace[1] \in {Step("reply", "rejection", TRUE),
                                         Step("reply", "rejection", FALSE)}
        /\ Now = AWAITING_SUBMISSION
        /\ db = before.db
        /\ Ops("db") = {} /\ Ops("send") = {}

\* C2's case: a text of 22 characters, 19 of them after trimming, was
\* rejected.
C2_Witness ==
    /\ Rejected /\ Len(update.text) >= MinLength
    /\ trace = <<Step("reply", "rejection", TRUE)>>

\* C3: a Greeting leaves the session IDLE whatever state it was in. Stated
\* for the greetings whose welcome reply was delivered.
C3_GreetingLeavesIdle == (Kind(update.text) = "Greeting" /\ ~raised) => Now = IDLE

\* C4: a BeginSubmission received in AWAITING_SUBMISSION is answered with the
\* template and the session stays AWAITING_SUBMISSION. Stated for the updates
\* whose reply was delivered.
C4_BeginAgainSendsTemplate ==
    (Kind(update.text) = "BeginSubmission" /\ Was = AWAITING_SUBMISSION /\ ~raised) =>
        /\ trace = <<Step("reply", "template", TRUE)>>
        /\ Now = AWAITING_SUBMISSION

\* C5 as stated: a BeginSubmission appends no record and leaves the session
\* AWAITING_SUBMISSION, whatever state it arrives in; of two in a row the
\* first arrives in either state and the second in the state the first left.
C5_BeginLeavesAwaiting ==
    Kind(update.text) = "BeginSubmission" =>
        db = before.db /\ Now = AWAITING_SUBMISSION

\* C5 as amended: a BeginSubmission appends no record and leaves the session
\* AWAITING_SUBMISSION, except that one that arrives in IDLE and whose
\* template reply fails leaves the session IDLE.
C5_BeginLeavesAwaitingUnlessRaised ==
    Kind(update.text) = "BeginSubmission" =>
        /\ db = before.db /\ Ops("db") = {}
        /\ Now = IF Was = IDLE /\ raised THEN IDLE ELSE AWAITING_SUBMISSION

\* C5's case: the second of two BeginSubmission: it arrived in
\* AWAITING_SUBMISSION, went to the handler of the state and was rejected as
\* too short.
C5_Witness ==
    /\ Kind(update.text) = "BeginSubmission" /\ Was = AWAITING_SUBMISSION
    /\ handler.callback = "handle_application_message"
    /\ Now = AWAITING_SUBMISSION /\ db = before.db

\* C6 as stated: a Cancel received in any state leaves the session IDLE and
\* appends no record.
C6_CancelLeavesIdle == Kind(update.text) = "Cancel" => Now = IDLE /\ db = before.db

\* C6 as amended: a Cancel appends no record and leaves the session IDLE,
\* except that one received in AWAITING_SUBMISSION whose acknowledgment reply
\* fails leaves the session AWAITING_SUBMISSION.
C6_CancelLeavesIdleUnlessRaised ==
    Kind(update.text) = "Cancel" =>
        /\ db = before.db /\ Ops("db") = {}
        /\ Now = IF Was = AWAITING_SUBMISSION /\ raised THEN AWAITING_SUBMISSION ELSE IDLE

\* C6's case: a Cancel received in AWAITING_SUBMISSION ended the conversation.
C6_Witness ==
    /\ Kind(update.text) = "Cancel" /\ Was = AWAITING_SUBMISSION
    /\ Now = IDLE /\ db = before.db

\* C7: a Cancel is answered with the cancellation acknowledgment in every
\* state, IDLE included.
C7_CancelAcknowledged ==
    Kind(update.text) = "Cancel" =>
        trace # <<>> /\ trace[1].op = "reply" /\ trace[1].msg = "cancelled"

\* The acknowledgment and then the warning were sent to the applicant.
AckThenWarning ==
    \E i \in Calls("reply", "ack"), j \in Calls("reply", "warning") : i < j

\* C8 as stated: when the forward of an accepted submission fails the
\* applicant is sent the acknowledgment and then the warning, and exactly one
\* alert to the organizer is attempted when the applicant is not the
\* organizer; no alert is attempted when the applicant is the organizer or
\* the forward succeeded.
C8_OneAlertWhenForwardFails ==
    Accepted =>
        /\ Made("send", "forward", FALSE) =>
              /\ AckThenWarning
              /\ Cardinality(Calls("send", "alert")) =
                    IF update.user # ORGANIZER_CHAT_ID THEN 1 ELSE 0
        /\ ~Made("send", "forward", FALSE) => Calls("send", "alert") = {}

\* C8 as amended: when the forward of an accepted submission fails the
\* applicant is sent the acknowledgment and then the warning, and exactly one
\* alert to the organizer is attempted when the applicant is not the
\* organizer and the warning was delivered; no alert is attempted when the
\* applicant is the organizer, when the warning failed or when the forward
\* succeeded.
C8_OneAlertWhenWarningDelivered ==
    Accepted =>
        /\ Made("send", "forward", FALSE) =>
              /\ AckThenWarning
              /\ Cardinality(Calls("send", "alert")) =
                    IF update.user # ORGANIZER_CHAT_ID /\ Made("reply", "warning", TRUE)
                    THEN 1 ELSE 0
        /\ ~Made("send", "forward", FALSE) => Calls("send", "alert") = {}

\* C8's case: the forward of another applicant's submission failed and the
\* alert to the organizer was attempted, and failed too.
C8_Witness ==
    /\ Accepted /\ update.user # ORGANIZER_CHAT_ID
    /\ Made("send", "forward", FALSE) /\ Made("send", "alert", FALSE)

\* Every reply to the applicant and every message to the organizer of the
\* last update was delivered.
AllDelivered == \A i \in Ops("reply") \cup Ops("send") : trace[i].ok

\* C9: a failure of the store on an accepted submission, in opening it or in
\* the INSERT, is swallowed: the acknowledgment is sent, the forward is
\* attempted, the session ends IDLE and the applicant is sent nothing else.
\* Stated for the updates whose messages were all delivered.
C9_StoreFailureSwallowed ==
    (Accepted /\ AllDelivered /\ \E i \in Ops("db") : ~trace[i].ok) =>
        /\ Made("reply", "ack", TRUE)
        /\ Calls("send", "forward") # {}
        /\ Now = IDLE
        /\ \A i \in Ops("reply") : trace[i].msg = "ack"

\* C10: an accepted submission leaves the session IDLE whatever the outcomes
\* of the store, the acknowledgment and the forward; the alert is attempted
\* at most once and nothing follows it. Stated for the updates whose replies
\* to the applicant were all delivered.
C10_IdleAfterSubmission ==
    (Accepted /\ \A i \in Ops("reply") : trace[i].ok) =>
        /\ Now = IDLE
        /\ Cardinality(Calls("send", "alert")) <= 1
        /\ \A i \in Calls("send", "alert") : i = Len(trace)

\* Nothing was written to the store and nothing was sent to the organizer.
NoSideEffect == db = before.db /\ Ops("db") = {} /\ Ops("send") = {}

\* C11: an unrecognized command, in any state, is answered with the "not
\* understood" response and changes nothing: every session is as it was,
\* no record is appended and nothing is sent to the organizer.
C11_UnknownCommandChangesNothing ==
    Kind(update.text) = "UnrecognizedCommand" =>
        /\ trace # <<>> /\ trace[1].op = "reply" /\ trace[1].msg = "not_understood"
        /\ conversations = before.conversations
        /\ NoSideEffect

\* C11's case: an unrecognized command with arguments, 20 characters and
\* more, received in AWAITING_SUBMISSION.
C11_Witness ==
    /\ Kind(update.text) = "UnrecognizedCommand" /\ Was = AWAITING_SUBMISSION
    /\ Len(Strip(update.text)) >= MinLength
    /\ trace = <<Step("reply", "not_understood", TRUE)>>

\* C12: sessions are isolated per applicant: an update of one applicant
\* leaves the session of every other applicant as it was, and a record is
\* appended only as the one row of the applicant whose FreeText was accepted.
C12_SessionsIsolated ==
    /\ \A v \in Users \ {update.user} : conversations[v] = before.conversations[v]
    /\ db # before.db => Accepted /\ OneRowAppended

\* C12's case: the submission of one applicant was accepted and stored while
\* the other applicant's session was AWAITING_SUBMISSION, after a submission
\* of that other applicant had been stored.
C12_Witness ==
    /\ Accepted /\ OneRowAppended /\ Now = IDLE
    /\ \E v \in Users \ {update.user} :
          /\ conversations[v] = AWAITING_SUBMISSION
          /\ before.db # <<>> /\ before.db[1].user_id = v

\* C13 as stated: a BeginSubmission received in IDLE moves the session to
\* AWAITING_SUBMISSION and is answered with the template; nothing is written
\* to the store and nothing is sent to the organizer.
C13_BeginOpensSubmission ==
    (Kind(update.text) = "BeginSubmission" /\ Was = IDLE) =>
        /\ Now = AWAITING_SUBMISSION
        /\ trace # <<>> /\ trace[1].op = "reply" /\ trace[1].msg = "template"
        /\ NoSideEffect

\* C13 as amended: a BeginSubmission received in IDLE is answered with the
\* template, writes nothing to the store and sends nothing to the organizer;
\* it moves the session to AWAITING_SUBMISSION unless the template reply
\* fails, and then the session stays IDLE.
C13_BeginOpensSubmissionUnlessRaised ==
    (Kind(update.text) = "BeginSubmission" /\ Was = IDLE) =>
        /\ Now = IF raised THEN IDLE ELSE AWAITING_SUBMISSION
        /\ raised <=> Made("reply", "template", FALSE)
        /\ trace # <<>> /\ trace[1].op = "reply" /\ trace[1].msg = "template"
        /\ NoSideEffect

\* C13's case: a BeginSubmission received in IDLE opened the submission.
C13_Witness ==
    /\ Kind(update.text) = "BeginSubmission" /\ Was = IDLE
    /\ Now = AWAITING_SUBMISSION /\ trace = <<Step("reply", "template", TRUE)>>

\* C14: when a fault occurs while an update is processed, the applicant is
\* sent the generic apology, as the last call made for the update, and the
\* state of every conversation is as it was before the update.
C14_FaultKeepsState ==
    raised =>
        /\ trace # <<>>
        /\ trace[Len(trace)].op = "reply" /\ trace[Len(trace)].msg = "apology"
        /\ Cardinality(Calls("reply", "apology")) = 1
        /\ conversations = before.conversations

\* C14's case: the acknowledgment of an accepted and stored submission
\* failed: the apology was sent and the session is still
\* AWAITING_SUBMISSION.
C14_Witness ==
    /\ raised /\ Accepted /\ OneRowAppended
    /\ Made("reply", "ack", FALSE) /\ Made("reply", "apology", TRUE)
    /\ Now = AWAITING_SUBMISSION

\* What C15 says of one accepted submission but for the number of forwards:
\* the organizer is sent at most two messages, of which at most one alert,
\* and the store is opened once and the INSERT attempted at most once.
AtMostOnceEach ==
    /\ Cardinality(Ops("send")) <= 2
    /\ Cardinality(Calls("send", "alert")) <= 1
    /\ Cardinality(Calls("db", "connect")) = 1
    /\ Cardinality(Calls("db", "insert")) <= 1

\* C15 as stated: for every accepted submission the forward is attempted
\* exactly once, the organizer is sent at most two messages (the forward and
\* at most one alert) and the store append is attempted exactly once. Stated
\* for the submissions whose store opened.
C15_ForwardExactlyOnce ==
    (Accepted /\ Made("db", "connect", TRUE)) =>
        /\ Cardinality(Calls("send", "forward")) = 1
        /\ AtMostOnceEach

\* C15 as amended: for every accepted submission the store append is
\* attempted exactly once and the forward at most once: exactly once when
\* the store opened and the acknowledgment was delivered, and not at all
\* otherwise; the organizer is sent at most two messages, the forward and at
\* most one alert.
C15_ForwardOnceWhenAcknowledged ==
    Accepted =>
        /\ Cardinality(Calls("send", "forward")) =
              IF Made("db", "connect", TRUE) /\ Made("reply", "ack", TRUE) THEN 1 ELSE 0
        /\ AtMostOnceEach

\* C15's case: the forward failed and the alert failed too: two messages to
\* the organizer, none of them sent again.
C15_Witness ==
    /\ Accepted /\ Made("send", "forward", FALSE) /\ Made("send", "alert", FALSE)
    /\ Cardinality(Ops("send")) = 2

\* C18: the store is append-only: every update leaves the rows it found as
\* they were and where they were, so that no row is changed or removed and
\* the number of rows never decreases.
C18_StoreAppendOnly ==
    /\ Len(db) >= Len(before.db)
    /\ SubSeq(db, 1, Len(before.db)) = before.db

\* C18's case: a submission was stored after a row of the other applicant,
\* which is still the first row.
C18_Witness ==
    /\ Len(before.db) >= 1 /\ Len(db) > Len(before.db)
    /\ before.db[1].user_id # update.user
    /\ db[1] = before.db[1]

\* C19: a FreeText received in IDLE, of any length, matches no handler:
\* nothing is sent to the applicant or to the organizer, nothing is written
\* to the store and the session stays IDLE; and a record is appended only by
\* a FreeText received in AWAITING_SUBMISSION.
C19_FreeTextInIdleIgnored ==
    /\ (Kind(update.text) = "FreeText" /\ Was = IDLE) =>
          /\ handler.callback = "none"
          /\ trace = <<>>
          /\ db = before.db
          /\ Now = IDLE
    /\ db # before.db => Submitted

\* C19's case: a text of valid length received in IDLE was ignored.
C19_Witness ==
    /\ Kind(update.text) = "FreeText" /\ Was = IDLE
    /\ Len(Strip(update.text)) >= MinLength
    /\ trace = <<>> /\ Now = IDLE

\* C20: on an accepted submission the INSERT is attempted before the
\* acknowledgment and the acknowledgment is delivered before the forward is
\* attempted: every acknowledgment belongs to an accepted submission and
\* follows an attempt to store it, and every forward follows the
\* acknowledgment, whatever the forward's outcome.
C20_StoreThenAckThenForward ==
    /\ \A i \in Calls("reply", "ack") :
          /\ Accepted
          /\ \E j \in Calls("db", "insert") : j < i
    /\ \A k \in Calls("send", "forward") :
          \E i \in Calls("reply", "ack") : i < k /\ trace[i].ok

\* C20's case: the INSERT failed, the acknowledgment was sent all the same
\* and the forward, attempted after it, failed.
C20_Witness ==
    /\ Accepted /\ Len(trace) >= 4
    /\ trace[2] = Step("db", "insert", FALSE)
    /\ trace[3] = Step("reply", "ack", TRUE)
    /\ trace[4] = Step("send", "forward", FALSE)

\* ---------------------------------------------------------------- C16

Absent(e) == ~e.set

\* A numeral of one or two digits, with or without a sign, whatever
\* whitespace surrounds it.
Numeric(v) ==
    \E sign \in {<<>>, <<"+">>, <<"-">>}, n \in 1..2 :
        \E digits \in [1..n -> Digits] : Strip(v) = sign \o digits

Misconfigured ==
    \/ Absent(environ["TELEGRAM_BOT_TOKEN"])
    \/ Absent(environ["ORGANIZER_CHAT_ID"])
    \/ ~Numeric(environ["ORGANIZER_CHAT_ID"].value)

\* C16: a process whose bot token is absent, whose organizer id is absent or
\* whose organizer id is not numeric never serves an update and exits; a
\* process that serves updates has both, and the id is numeric.
C16_ExitsUnlessConfigured ==
    /\ [](Misconfigured => process # "serving" /\ served = 0 /\ trace = <<>>)
    /\ (Misconfigured ~> process = "exited")

C16_Witness ==
    /\ environ["TELEGRAM_BOT_TOKEN"].value # <<>>
    /\ environ["ORGANIZER_CHAT_ID"] = Env(<<"a", "b", "c">>)
    /\ process = "exited"
    /\ served = 0

\* ---------------------------------------------------------------- C17

Fired == timer \in {"notice_sent", "notice_failed"}

\* C17: the restart is armed once, when the process starts, and a serving
\* process has it armed; it fires once, with one notice to the organizer, and
\* once it fired the process terminates, whether the notice was sent or not
\* and whatever the sessions are.
C17_RestartTerminates ==
    /\ [](process = "serving" => timer # "unarmed")
    /\ [][/\ timer' = "armed" => timer = "unarmed" /\ process = "starting"
          /\ Fired' => timer = "armed"]_timer
    /\ (Fired ~> process = "exited")

C17_Witness ==
    /\ process = "exited"
    /\ timer = "notice_failed"
    /\ \E u \in Users : conversations[u] = AWAITING_SUBMISSION

====
